---- MODULE Spec2Model ----
(***************************************************************************)
(* Model of the xeus-r request bridge (src/src/xinterpreter.cpp).          *)
(*                                                                         *)
(* One logical thread runs the handlers of xeus_r::interpreter.  The       *)
(* handlers call into the embedded R runtime; while R evaluates it may     *)
(* call back into WriteConsoleEx and ReadConsole.  `pc' is the position of *)
(* that thread.  `sent' is what the bridge has handed to the protocol      *)
(* server under the parent header of the current request: stream events,   *)
(* execution-error and execution-result events, and terminal replies.      *)
(***************************************************************************)
EXTENDS Integers, Sequences, FiniteSets, TLC

\* ------------------------------------------------------------------ bounds
MaxRequests == 2    \* requests dispatched in one run
MaxWrites   == 1    \* console writes during one native evaluation
MaxReads    == 1    \* console reads during one native evaluation
MaxTrace    == 2    \* lines of a native traceback
MaxLine     == 2    \* bytes of a line typed by the client
MaxBufLen   == 2    \* length of the buffer R hands to ReadConsole
MaxCaptureWrites == 3    \* console writes during one capturing evaluation

\* ------------------------------------------------------- program constants
FALSE_     == 0     \* R's FALSE
TRUE_      == 1     \* R's TRUE
StderrType == 1     \* otype of an error-like console write

VARIABLES
    pc,            \* position of the interpreter thread
    req,           \* the request being handled (arguments of the handler)
    rid,           \* number of requests dispatched so far
    R_PPStackTop,  \* depth of R's pointer-protection stack
    entry_top,     \* R_PPStackTop when the current handler was entered
    result,        \* SEXP returned by r::invoke_hera_fn / Rf_eval
    sent,          \* messages emitted for the current request, in order
    history,       \* store_inputs calls made for the current request
    buffer,        \* R's console input buffer as left by ReadConsole
    nwrites,       \* console writes made during the current evaluation
    nreads,        \* console reads made during the current evaluation
    signal,        \* how the last handler left: "none", or what escaped it
    hera_loaded,   \* what require("hera") returned in configure_impl
    prev,          \* the request handled last: its kind and its terminal replies
    sink,          \* the console callback installed: "publish" or "capture"
    capture_stream,\* interpreter::capture_stream, as the bytes written to it
    last_write,    \* arguments of the console write made last in this evaluation
    R_PPStack,     \* the objects the current handler has on the protection stack
    decodes        \* reads of the current request's hera result, and what protected it

vars == <<pc, req, rid, R_PPStackTop, entry_top, result, sent, history,
          buffer, nwrites, nreads, signal, hera_loaded, prev,
          sink, capture_stream, last_write, R_PPStack, decodes>>

console == <<sink, capture_stream, last_write>>
protection == <<R_PPStack, decodes>>

\* ------------------------------------------------------------ input domains
Codes           == {"1 + 1", "1 + "}
CursorPositions == {0, 3}
Errors          == {<<"boom", "simpleError">>, <<"oops", "rlang_error">>}
TraceLines      == <<"f()", "g()", "h()", "k()">>
Payloads        == {"{}", "{\"text/plain\":\"2\"}", "{bad"}
Metadata        == {"{}", "{bad"}
ConsoleBuffer   == <<"h", "i">>
Bytes           == <<"h", "i", "!", "?">>

\* the leading parts of s, up to n elements: elements are distinct, so a
\* reordering, a loss or a duplication shows
Prefixes(s, n) == {SubSeq(s, 1, k) : k \in 0 .. n}

Min(a, b) == IF a < b THEN a ELSE b

NoReq    == [kind |-> "none"]
NoResult == [class |-> "unset"]

\* ------------------------------------------------------ native R values
\* An R list is the sequence of its elements; a character, integer or
\* logical vector is the sequence of its values; `class' is the set of names
\* in the class attribute.  R indexes from 0.
VECTOR_ELT(x, i)  == x.elts[i + 1]
STRING_ELT(v, i)  == v[i + 1]
INTEGER_ELT(v, i) == v[i + 1]
LOGICAL_ELT(v, i) == v[i + 1]
XLENGTH(v)        == Len(v)
Rf_inherits(x, what) == what \in x.class

Traces == Prefixes(TraceLines, MaxTrace)

\* what hera's execute() can hand back: an error_reply with or without a
\* traceback element, an execution_result, or something with neither class
ErrorReplies ==
    {[class |-> {"error_reply"}, elts |-> <<<<e[1]>>, <<e[2]>>>>] : e \in Errors}
    \cup
    {[class |-> {"error_reply"}, elts |-> <<<<e[1]>>, <<e[2]>>, tb>>] :
        e \in Errors, tb \in Traces}

ExecutionResults ==
    {[class |-> {"execution_result"}, elts |-> <<<<d>>, <<m>>>>] :
        d \in Payloads, m \in Metadata}

OtherResults == {[class |-> {}, elts |-> <<>>]}

ExecuteResults == ErrorReplies \cup ExecutionResults \cup OtherResults

\* what hera's complete() hands back: list(matches, c(start, end))
Matches == Prefixes(<<"print", "paste">>, 2) \cup {<<"paste", "print">>}
CompleteResults ==
    {[class |-> {}, elts |-> <<m, <<0, e>>>>] : m \in Matches, e \in CursorPositions}

\* what hera's inspect() hands back: list(found, payload)
InspectResults ==
    {[class |-> {}, elts |-> <<<<f>>, <<p>>>>] :
        f \in {FALSE_, TRUE_}, p \in Payloads}

\* ------------------------------------------------------------ the codec
\* nl::json::parse: a document is the set of its members; a text that is
\* not JSON makes parse throw
json_parse(text) ==
    CASE text = "{}"                     -> [ok |-> TRUE,  doc |-> {}]
      [] text = "{\"text/plain\":\"2\"}" -> [ok |-> TRUE,  doc |-> {<<"text/plain", "2">>}]
      [] OTHER                           -> [ok |-> FALSE, doc |-> {}]

\* the loop of lines 130-132: element i of the native vector is pushed at
\* the back, for i = 0 .. n-1
RECURSIVE push_back_from(_, _, _)
push_back_from(x, i, vec) ==
    IF i < XLENGTH(x)
    THEN push_back_from(x, i + 1, Append(vec, STRING_ELT(x, i)))
    ELSE vec

\* the loop of lines 224-226: element i of the native vector is assigned to
\* vec[i], for i = 0 .. n-1
RECURSIVE assign_from(_, _, _)
assign_from(x, i, vec) ==
    IF i < XLENGTH(x)
    THEN assign_from(x, i + 1, [vec EXCEPT ![i + 1] = STRING_ELT(x, i)])
    ELSE vec

\* variant: the loop starts at the second element
json_from_character_vector_from_1(x) ==
    assign_from(x, 1, [k \in 1 .. XLENGTH(x) |-> ""])

\* lines 220-228: a vector of n empty strings is filled from the native
\* vector
json_from_character_vector(x) ==
    assign_from(x, 0, [k \in 1 .. XLENGTH(x) |-> ""])

\* ------------------------------------------------------------- messages
publish_stream(name, text) == [type |-> "stream", name |-> name, text |-> text]

publish_execution_error(evalue, ename, trace_back) ==
    [type |-> "error", evalue |-> evalue, ename |-> ename, traceback |-> trace_back]

\* variant: data and metadata change places
publish_execution_result_swapped(execution_count, data, metadata) ==
    [type |-> "execute_result", execution_count |-> execution_count,
     data |-> metadata, metadata |-> data]

publish_execution_result(execution_count, data, metadata) ==
    [type |-> "execute_result", execution_count |-> execution_count,
     data |-> data, metadata |-> metadata]

Reply(content) == [type |-> "reply", content |-> content]

create_error_reply(evalue, ename, trace_back) ==
    [status |-> "error", evalue |-> evalue, ename |-> ename, traceback |-> trace_back]

create_successful_reply == [status |-> "ok"]

create_is_complete_reply(status, indent) == [status |-> status, indent |-> indent]

create_complete_reply(matches, cursor_start, cursor_end) ==
    [status |-> "ok", matches |-> matches,
     cursor_start |-> cursor_start, cursor_end |-> cursor_end]

create_inspect_reply(found, data) ==
    [status |-> "ok", found |-> found, data |-> data]

\* ---------------------------------------------------- protection stack
PROTECT(top, n) == top + n

\* the same stack as the objects on it: PROTECT pushes its argument
Pushed(stack, objects) == stack \o objects

\* what UNPROTECT(n) with outcome u leaves of the handler's own entries
Popped(stack, n, u) ==
    IF u.error THEN stack
    ELSE IF Len(stack) >= n THEN SubSeq(stack, 1, Len(stack) - n)
    ELSE <<>>

\* reading `fields' of the hera result while `stack' is what the handler
\* has protected: the result is safe from the collector only while it is on
\* the stack, and nothing of the request is once the stack is empty
Decode(stack, fields) ==
    {[field     |-> f,
      protected |-> \E i \in 1 .. Len(stack) : stack[i] = "result",
      released  |-> stack = <<>>] : f \in fields}

\* UNPROTECT(n) pops n entries.  Popping more than the stack holds is outside
\* R's contract: a runtime that checks signals its unprotect error, one that
\* does not moves the top below the bottom of the stack.  A top that is
\* already below the bottom shows a runtime that does not check.
UNPROTECT(top, n) ==
    IF top >= n \/ top < 0
    THEN {[error |-> FALSE, top |-> top - n]}
    ELSE {[error |-> FALSE, top |-> top - n], [error |-> TRUE, top |-> top]}

\* ------------------------------------------------------------------ Init
\* The state after interpreter::interpreter: R is initialised, the console
\* callbacks are installed, nothing is protected and configure_impl has not
\* run yet.
NoBuffer == [length |-> 0, cells |-> <<>>, stores |-> {}, past |-> FALSE]
NoWrite  == [buf |-> <<>>, buflen |-> 0, otype |-> -1]

Init ==
    /\ pc = "start"
    /\ req = NoReq
    /\ rid = 0
    /\ R_PPStackTop = 0
    /\ entry_top = 0
    /\ result = NoResult
    /\ sent = <<>>
    /\ history = <<>>
    /\ buffer = NoBuffer
    /\ nwrites = 0
    /\ nreads = 0
    /\ signal = "none"
    /\ hera_loaded = FALSE
    /\ prev = [kind |-> "none", replies |-> 0]
    /\ sink = "publish"
    /\ capture_stream = <<>>
    /\ last_write = NoWrite
    /\ R_PPStack = <<>>
    /\ decodes = {}

\* terminal replies among the messages of the current request
IsReply(m) == m.type = "reply"
Replies(msgs) == SelectSeq(msgs, IsReply)

\* the protocol server hands the next request to the interpreter: the
\* handler starts with the messages of the new parent header empty
Dispatch(r) ==
    /\ pc = "idle"
    /\ rid < MaxRequests
    /\ rid' = rid + 1
    /\ req' = r
    /\ entry_top' = R_PPStackTop
    /\ result' = NoResult
    /\ nwrites' = 0
    /\ nreads' = 0
    /\ signal' = "none"
    /\ decodes' = {}

\* the handler returns to the protocol server
Return(msgs) ==
    /\ sent' = msgs
    /\ prev' = [kind |-> req.kind, replies |-> Len(Replies(msgs))]

\* an exception, or R's unprotect error, leaves the handler
Throw(what, to) ==
    /\ pc' = to
    /\ signal' = what
    /\ prev' = [kind |-> req.kind, replies |-> Len(Replies(sent))]

\* ------------------------------------------------------- configure_impl
\* lines 155-160: two protections, then require("hera") is evaluated
configure_impl_eval ==
    /\ pc = "start"
    /\ pc' = "configure_eval"
    /\ R_PPStackTop' = PROTECT(R_PPStackTop, 2)
    /\ entry_top' = R_PPStackTop
    /\ UNCHANGED <<req, rid, result, sent, history, buffer, nwrites, nreads,
                   signal, hera_loaded, prev>>
    /\ UNCHANGED console
    /\ R_PPStack' = Pushed(R_PPStack, <<"str_hera", "call_library_hera">>)
    /\ UNCHANGED decodes

\* lines 160-166: the value of require() is protected and looked at; the
\* branch for FALSE is empty; three protections are released
configure_impl_return ==
    /\ pc = "configure_eval"
    /\ \E out \in {FALSE_, TRUE_} :
         LET top == PROTECT(R_PPStackTop, 1)
         IN  /\ result' = [class |-> {}, elts |-> <<out>>]
             /\ hera_loaded' = (LOGICAL_ELT(<<out>>, 0) # FALSE_)
             /\ \E u \in UNPROTECT(top, 3) :
                  /\ R_PPStackTop' = u.top
                  /\ R_PPStack' = Popped(Pushed(R_PPStack, <<"out">>), 3, u)
                  /\ IF u.error
                     THEN /\ pc' = "crashed"
                          /\ signal' = "unprotect_error"
                     ELSE /\ pc' = "idle"
                          /\ signal' = "none"
    /\ nwrites' = 0
    /\ UNCHANGED <<req, rid, entry_top, sent, history, buffer, nreads, prev>>
    /\ last_write' = NoWrite
    /\ UNCHANGED <<sink, capture_stream>>
    /\ UNCHANGED decodes

\* ------------------------------------------------------ console callbacks
Evaluating == pc \in {"configure_eval", "invoke"}

\* lines 48, 57: std::string(buf, buflen) takes exactly buflen bytes; it
\* does not look for a terminator
string(buf, buflen) == [i \in 1 .. buflen |-> buf[i]]

\* variant: the text runs to the end of the buffer, whatever buflen says
WriteConsoleEx_to_terminator ==
    /\ Evaluating
    /\ sink = "publish"
    /\ nwrites < MaxWrites
    /\ \E buf \in {ConsoleBuffer}, otype \in {0, 1, 2}, buflen \in 1 .. Len(ConsoleBuffer) :
         LET output == string(buf, Len(buf))
         IN  /\ sent' = Append(sent,
                          IF otype = StderrType
                          THEN publish_stream("stderr", output)
                          ELSE publish_stream("stdout", output))
             /\ last_write' = [buf |-> buf, buflen |-> buflen, otype |-> otype]
    /\ nwrites' = nwrites + 1
    /\ UNCHANGED <<pc, req, rid, R_PPStackTop, entry_top, result, history,
                   buffer, nreads, signal, hera_loaded, prev, sink, capture_stream>>
    /\ UNCHANGED protection

\* lines 47-54: the first buflen bytes of buf go to "stderr" when otype is
\* 1 and to "stdout" otherwise
WriteConsoleEx ==
    /\ Evaluating
    /\ sink = "publish"
    /\ nwrites < MaxWrites
    /\ \E buf \in {ConsoleBuffer}, otype \in {0, 1, 2}, buflen \in 1 .. Len(ConsoleBuffer) :
         LET output == string(buf, buflen)
         IN  /\ sent' = Append(sent,
                          IF otype = StderrType
                          THEN publish_stream("stderr", output)
                          ELSE publish_stream("stdout", output))
             /\ last_write' = [buf |-> buf, buflen |-> buflen, otype |-> otype]
    /\ nwrites' = nwrites + 1
    /\ UNCHANGED <<pc, req, rid, R_PPStackTop, entry_top, result, history,
                   buffer, nreads, signal, hera_loaded, prev, sink, capture_stream>>
    /\ UNCHANGED protection

\* ----------------------------------------------------------- capture mode
\* A side-band evaluation (the self-check of the companion library at
\* startup) runs with capture_WriteConsoleEx installed in place of
\* WriteConsoleEx, so that its console output stays in capture_stream.
capture_begin ==
    /\ pc = "idle"
    /\ rid = 0
    /\ sink = "publish"
    /\ pc' = "capture_eval"
    /\ sink' = "capture"
    /\ capture_stream' = <<>>
    /\ nwrites' = 0
    /\ last_write' = NoWrite
    /\ UNCHANGED <<req, rid, R_PPStackTop, entry_top, result, sent, history,
                   buffer, nreads, signal, hera_loaded, prev>>
    /\ UNCHANGED protection

\* the side-band evaluation is over: the caller has looked at the captured
\* text, the buffer is discarded and WriteConsoleEx is installed again
capture_end ==
    /\ pc = "capture_eval"
    /\ pc' = "idle"
    /\ sink' = "publish"
    /\ capture_stream' = <<>>
    /\ nwrites' = 0
    /\ last_write' = NoWrite
    /\ UNCHANGED <<req, rid, R_PPStackTop, entry_top, result, sent, history,
                   buffer, nreads, signal, hera_loaded, prev>>
    /\ UNCHANGED protection

\* variant: only channel 2 is discarded
capture_WriteConsoleEx_keeps_stderr ==
    /\ pc = "capture_eval"
    /\ sink = "capture"
    /\ nwrites < MaxCaptureWrites
    /\ \E buf \in {ConsoleBuffer}, otype \in {0, 1, 2}, buflen \in 0 .. Len(ConsoleBuffer) :
         LET output == string(buf, buflen)
         IN  /\ capture_stream' = IF otype = 2
                                  THEN capture_stream
                                  ELSE capture_stream \o output
             /\ last_write' = [buf |-> buf, buflen |-> buflen, otype |-> otype]
    /\ nwrites' = nwrites + 1
    /\ UNCHANGED <<pc, req, rid, R_PPStackTop, entry_top, result, sent, history,
                   buffer, nreads, signal, hera_loaded, prev, sink>>
    /\ UNCHANGED protection

\* lines 56-63: a write with otype 1 does nothing; any other write appends
\* the first buflen bytes of buf to capture_stream
capture_WriteConsoleEx ==
    /\ pc = "capture_eval"
    /\ sink = "capture"
    /\ nwrites < MaxCaptureWrites
    /\ \E buf \in {ConsoleBuffer}, otype \in {0, 1, 2}, buflen \in 0 .. Len(ConsoleBuffer) :
         LET output == string(buf, buflen)
         IN  /\ capture_stream' = IF otype = StderrType
                                  THEN capture_stream
                                  ELSE capture_stream \o output
             /\ last_write' = [buf |-> buf, buflen |-> buflen, otype |-> otype]
    /\ nwrites' = nwrites + 1
    /\ UNCHANGED <<pc, req, rid, R_PPStackTop, entry_top, result, sent, history,
                   buffer, nreads, signal, hera_loaded, prev, sink>>
    /\ UNCHANGED protection

\* line 66: R asks for a line; the thread blocks in blocking_input_request
\* until the client answers
ReadConsole_request ==
    /\ pc = "invoke"
    /\ nreads < MaxReads
    /\ pc' = "input_wait"
    /\ nreads' = nreads + 1
    /\ UNCHANGED <<req, rid, R_PPStackTop, entry_top, result, sent, history,
                   buffer, nwrites, signal, hera_loaded, prev>>
    /\ UNCHANGED console
    /\ UNCHANGED protection

\* lines 68-73: min(res.size(), length) bytes are copied to the front of
\* the buffer and a line break is stored at buffer[size]; `stores' is the
\* set of positions written and `past' tells a store at buffer[length], one
\* past the caller's buffer.  Such a store is undefined: it lands in
\* whatever follows the buffer and the read returns, or the process faults.
ReadConsole_return ==
    /\ pc = "input_wait"
    /\ \E res \in Prefixes(Bytes, MaxLine), length \in 1 .. MaxBufLen :
         LET size == Min(Len(res), length)
         IN  /\ buffer' = [length |-> length,
                           cells  |-> [i \in 1 .. length |->
                                         IF i <= size THEN res[i]
                                         ELSE IF i = size + 1 THEN "\n"
                                         ELSE "untouched"],
                           stores |-> 0 .. size,
                           past   |-> (size + 1 > length)]
             /\ \/ /\ pc' = "invoke"
                   /\ UNCHANGED <<signal, prev>>
                \/ /\ size + 1 > length
                   /\ Throw("memory_fault", "crashed")
    /\ UNCHANGED <<req, rid, R_PPStackTop, entry_top, result, sent, history,
                   nwrites, nreads, hera_loaded>>
    /\ UNCHANGED console
    /\ UNCHANGED protection

\* ------------------------------------------------------ invoke_hera_fn
\* r::invoke_hera_fn calls a function of the hera namespace by name.  When
\* require("hera") failed there is no such namespace: the call raises an R
\* error, which no handler of the bridge catches, and the session is lost.
invoke_hera_fn_unavailable ==
    /\ pc = "invoke"
    /\ ~hera_loaded
    /\ Throw("R_error", "crashed")
    /\ UNCHANGED <<req, rid, R_PPStackTop, entry_top, result, sent, history,
                   buffer, nwrites, nreads, hera_loaded>>
    /\ UNCHANGED console
    /\ UNCHANGED protection

\* ------------------------------------------------- execute_request_impl
\* line 113: xhistory_manager::store_inputs records one input line
store_inputs(h, revision, execution_count, code) ==
    Append(h, <<revision, execution_count, code>>)

\* variant: the input is stored whatever store_history says
execute_request_impl_always_stores ==
    /\ \E code \in Codes, execution_count \in {rid + 1},
          silent \in BOOLEAN, store_history \in BOOLEAN :
         /\ Dispatch([kind |-> "execute", code |-> code,
                      execution_count |-> execution_count,
                      silent |-> silent, store_history |-> store_history])
         /\ history' = store_inputs(<<>>, 0, execution_count, code)
    /\ R_PPStackTop' = PROTECT(R_PPStackTop, 3)
    /\ pc' = "invoke"
    /\ sent' = <<>>
    /\ UNCHANGED <<buffer, hera_loaded, prev>>
    /\ UNCHANGED console
    /\ R_PPStack' = <<"code_", "execution_counter_", "silent_">>

\* lines 112-120: the input is stored when store_history is set, three
\* arguments are protected and hera's execute() is called
execute_request_impl ==
    /\ \E code \in Codes, execution_count \in {rid + 1},
          silent \in BOOLEAN, store_history \in BOOLEAN :
         /\ Dispatch([kind |-> "execute", code |-> code,
                      execution_count |-> execution_count,
                      silent |-> silent, store_history |-> store_history])
         /\ history' = IF store_history
                       THEN store_inputs(<<>>, 0, execution_count, code)
                       ELSE <<>>
    /\ R_PPStackTop' = PROTECT(R_PPStackTop, 3)
    /\ pc' = "invoke"
    /\ sent' = <<>>
    /\ UNCHANGED <<buffer, hera_loaded, prev>>
    /\ UNCHANGED console
    /\ R_PPStack' = <<"code_", "execution_counter_", "silent_">>

\* line 120: r::invoke_hera_fn("execute", ...) returns; the result is not
\* protected
execute_invoke_return ==
    /\ pc = "invoke"
    /\ req.kind = "execute"
    /\ hera_loaded
    /\ \E r \in ExecuteResults : result' = r
    /\ pc' = "execute_error_test"
    /\ buffer' = NoBuffer
    /\ nwrites' = 0
    /\ nreads' = 0
    /\ UNCHANGED <<req, rid, R_PPStackTop, entry_top, sent, history, signal,
                   hera_loaded, prev>>
    /\ last_write' = NoWrite
    /\ UNCHANGED <<sink, capture_stream>>
    /\ UNCHANGED protection

\* lines 123-133: message, kind and, when the list has a third element,
\* the traceback lines in order
error_evalue(r) == STRING_ELT(VECTOR_ELT(r, 0), 0)
error_ename(r)  == STRING_ELT(VECTOR_ELT(r, 1), 0)

\* variant: the traceback loop stops one line short
error_trace_back_short(r) ==
    IF XLENGTH(r.elts) > 2 /\ XLENGTH(VECTOR_ELT(r, 2)) > 0
    THEN LET x == VECTOR_ELT(r, 2)
         IN  push_back_from(SubSeq(x, 1, XLENGTH(x) - 1), 0, <<>>)
    ELSE <<>>

error_trace_back(r) ==
    IF XLENGTH(r.elts) > 2
    THEN push_back_from(VECTOR_ELT(r, 2), 0, <<>>)
    ELSE <<>>

\* variant: the error reply is passed to cb before the error is published
execute_error_branch_reply_first ==
    /\ pc = "execute_error_test"
    /\ IF Rf_inherits(result, "error_reply")
       THEN LET evalue     == error_evalue(result)
                ename      == error_ename(result)
                trace_back == error_trace_back(result)
                replied    == Append(sent,
                                Reply(create_error_reply(evalue, ename, trace_back)))
            IN  \E u \in UNPROTECT(R_PPStackTop, 3) :
                  /\ R_PPStackTop' = u.top
                  /\ R_PPStack' = Popped(R_PPStack, 3, u)
                  /\ IF u.error
                     THEN /\ sent' = sent
                          /\ Throw("unprotect_error", "crashed")
                     ELSE /\ sent' = Append(replied,
                                      publish_execution_error(evalue, ename, trace_back))
                          /\ pc' = "execute_result_test"
                          /\ UNCHANGED <<signal, prev>>
       ELSE /\ pc' = "execute_result_test"
            /\ UNCHANGED <<R_PPStackTop, R_PPStack, sent, signal, prev>>
    /\ UNCHANGED <<req, rid, entry_top, result, history, buffer, nwrites,
                   nreads, hera_loaded>>
    /\ UNCHANGED console
    /\ decodes' = decodes \cup Decode(R_PPStack,
                     {"error_reply tag"} \cup
                     (IF Rf_inherits(result, "error_reply")
                      THEN {"message", "kind", "length"} \cup
                           (IF XLENGTH(result.elts) > 2 THEN {"trace"} ELSE {})
                      ELSE {}))

\* variant: the handler returns right after the error reply
execute_error_branch_returns ==
    /\ pc = "execute_error_test"
    /\ IF Rf_inherits(result, "error_reply")
       THEN LET evalue     == error_evalue(result)
                ename      == error_ename(result)
                trace_back == error_trace_back(result)
                published  == Append(sent,
                                publish_execution_error(evalue, ename, trace_back))
            IN  \E u \in UNPROTECT(R_PPStackTop, 3) :
                  /\ R_PPStackTop' = u.top
                  /\ R_PPStack' = Popped(R_PPStack, 3, u)
                  /\ IF u.error
                     THEN /\ sent' = published
                          /\ Throw("unprotect_error", "crashed")
                     ELSE /\ Return(Append(published,
                                      Reply(create_error_reply(evalue, ename, trace_back))))
                          /\ pc' = "idle"
                          /\ UNCHANGED signal
       ELSE /\ pc' = "execute_result_test"
            /\ UNCHANGED <<R_PPStackTop, R_PPStack, sent, signal, prev>>
    /\ UNCHANGED <<req, rid, entry_top, result, history, buffer, nwrites,
                   nreads, hera_loaded>>
    /\ UNCHANGED console
    /\ decodes' = decodes \cup Decode(R_PPStack,
                     {"error_reply tag"} \cup
                     (IF Rf_inherits(result, "error_reply")
                      THEN {"message", "kind", "length"} \cup
                           (IF XLENGTH(result.elts) > 2 THEN {"trace"} ELSE {})
                      ELSE {}))

\* lines 122-139: on an error_reply the execution error is published,
\* three protections are released and the error reply is passed to cb;
\* control then goes on to line 141
execute_error_branch ==
    /\ pc = "execute_error_test"
    /\ IF Rf_inherits(result, "error_reply")
       THEN LET evalue     == error_evalue(result)
                ename      == error_ename(result)
                trace_back == error_trace_back(result)
                published  == Append(sent,
                                publish_execution_error(evalue, ename, trace_back))
            IN  \E u \in UNPROTECT(R_PPStackTop, 3) :
                  /\ R_PPStackTop' = u.top
                  /\ R_PPStack' = Popped(R_PPStack, 3, u)
                  /\ IF u.error
                     THEN /\ sent' = published
                          /\ Throw("unprotect_error", "crashed")
                     ELSE /\ sent' = Append(published,
                                      Reply(create_error_reply(evalue, ename, trace_back)))
                          /\ pc' = "execute_result_test"
                          /\ UNCHANGED <<signal, prev>>
       ELSE /\ pc' = "execute_result_test"
            /\ UNCHANGED <<R_PPStackTop, R_PPStack, sent, signal, prev>>
    /\ UNCHANGED <<req, rid, entry_top, result, history, buffer, nwrites,
                   nreads, hera_loaded>>
    /\ UNCHANGED console
    /\ decodes' = decodes \cup Decode(R_PPStack,
                     {"error_reply tag"} \cup
                     (IF Rf_inherits(result, "error_reply")
                      THEN {"message", "kind", "length"} \cup
                           (IF XLENGTH(result.elts) > 2 THEN {"trace"} ELSE {})
                      ELSE {}))

\* lines 141-147: on an execution_result the two payload strings are parsed
\* and the execution result is published; a parse failure throws out of the
\* handler
execute_result_branch ==
    /\ pc = "execute_result_test"
    /\ IF Rf_inherits(result, "execution_result")
       THEN LET data     == json_parse(STRING_ELT(VECTOR_ELT(result, 0), 0))
                metadata == json_parse(STRING_ELT(VECTOR_ELT(result, 1), 0))
            IN  IF data.ok /\ metadata.ok
                THEN /\ sent' = Append(sent,
                                  publish_execution_result(req.execution_count,
                                                           data.doc, metadata.doc))
                     /\ pc' = "execute_finish"
                     /\ UNCHANGED <<signal, prev>>
                ELSE /\ Throw("exception", "idle")
                     /\ UNCHANGED sent
       ELSE /\ pc' = "execute_finish"
            /\ UNCHANGED <<sent, signal, prev>>
    /\ UNCHANGED <<req, rid, R_PPStackTop, entry_top, result, history, buffer,
                   nwrites, nreads, hera_loaded>>
    /\ UNCHANGED console
    /\ decodes' = decodes \cup Decode(R_PPStack,
                     {"execution_result tag"} \cup
                     (IF Rf_inherits(result, "execution_result")
                      THEN {"data", "metadata"}
                      ELSE {}))
    /\ UNCHANGED R_PPStack

\* lines 149-150: three protections are released and the successful reply
\* is passed to cb
execute_finish ==
    /\ pc = "execute_finish"
    /\ \E u \in UNPROTECT(R_PPStackTop, 3) :
         /\ R_PPStackTop' = u.top
         /\ R_PPStack' = Popped(R_PPStack, 3, u)
         /\ IF u.error
            THEN /\ Throw("unprotect_error", "crashed")
                 /\ UNCHANGED sent
            ELSE /\ Return(Append(sent, Reply(create_successful_reply)))
                 /\ pc' = "idle"
                 /\ UNCHANGED signal
    /\ UNCHANGED <<req, rid, entry_top, result, history, buffer, nwrites,
                   nreads, hera_loaded>>
    /\ UNCHANGED console
    /\ UNCHANGED decodes

\* --------------------------------------------- is_complete_request_impl
\* R's ParseStatus, and the parser raising an R error instead of returning
ParseStatuses == {"PARSE_NULL", "PARSE_OK", "PARSE_INCOMPLETE", "PARSE_ERROR",
                  "PARSE_EOF"}
ParseOutcomes == ParseStatuses \cup {"R_error"}

\* variant: the switch has no default case
parse_body_no_default(code, status) ==
    CASE status = "PARSE_INCOMPLETE" -> [code EXCEPT ![1] = "incomplete"]
      [] status = "PARSE_ERROR"      -> [code EXCEPT ![1] = "invalid"]
      [] OTHER                       -> code

\* lines 185-196: the switch of the body; it overwrites element 0 of the
\* character vector that held the source text
parse_body(code, status) ==
    CASE status = "PARSE_INCOMPLETE" -> [code EXCEPT ![1] = "incomplete"]
      [] status = "PARSE_ERROR"      -> [code EXCEPT ![1] = "invalid"]
      [] OTHER                       -> [code EXCEPT ![1] = "complete"]

\* variant: the handler leaves the vector as it is
parse_handler_keeps(code) == code

\* lines 202-210: the handler of R_tryCatchError
parse_handler(code) == [code EXCEPT ![1] = "invalid"]

\* lines 178-212: the body runs unless the parser raised, then the handler
R_tryCatchError(code, outcome) ==
    IF outcome = "R_error" THEN parse_handler(code) ELSE parse_body(code, outcome)

\* variant: the text is handed to an R function that parses it
is_complete_request_impl_evaluates ==
    /\ \E code \in Codes : Dispatch([kind |-> "is_complete", code |-> code])
    /\ R_PPStackTop' = PROTECT(R_PPStackTop, 1)
    /\ pc' = "invoke"
    /\ sent' = <<>>
    /\ history' = <<>>
    /\ UNCHANGED <<buffer, hera_loaded, prev>>
    /\ UNCHANGED console
    /\ R_PPStack' = <<"code">>

\* line 173: the source text is put in a protected character vector and the
\* parser is called
is_complete_request_impl ==
    /\ \E code \in Codes : Dispatch([kind |-> "is_complete", code |-> code])
    /\ R_PPStackTop' = PROTECT(R_PPStackTop, 1)
    /\ pc' = "parse"
    /\ sent' = <<>>
    /\ history' = <<>>
    /\ UNCHANGED <<buffer, hera_loaded, prev>>
    /\ UNCHANGED console
    /\ R_PPStack' = <<"code">>

\* lines 178-217: the classification replaces the text, the reply is built
\* from element 0 with an empty indent, and the protection is released
is_complete_parse_return ==
    /\ pc = "parse"
    /\ \E outcome \in ParseOutcomes :
         LET code == R_tryCatchError(<<req.code>>, outcome)
             reply == create_is_complete_reply(STRING_ELT(code, 0), "")
         IN  /\ result' = [class |-> {}, elts |-> code, status |-> outcome]
             /\ \E u \in UNPROTECT(R_PPStackTop, 1) :
                  /\ R_PPStackTop' = u.top
                  /\ R_PPStack' = Popped(R_PPStack, 1, u)
                  /\ IF u.error
                     THEN /\ Throw("unprotect_error", "crashed")
                          /\ UNCHANGED sent
                     ELSE /\ Return(Append(sent, Reply(reply)))
                          /\ pc' = "idle"
                          /\ UNCHANGED signal
    /\ UNCHANGED <<req, rid, entry_top, history, buffer, nwrites, nreads,
                   hera_loaded>>
    /\ UNCHANGED console
    /\ UNCHANGED decodes

\* ------------------------------------------------ complete_request_impl
\* lines 232-235: two arguments are protected and hera's complete() is
\* called
complete_request_impl ==
    /\ \E code \in Codes, cursor_pos \in CursorPositions :
         Dispatch([kind |-> "complete", code |-> code, cursor_pos |-> cursor_pos])
    /\ R_PPStackTop' = PROTECT(R_PPStackTop, 2)
    /\ pc' = "invoke"
    /\ sent' = <<>>
    /\ history' = <<>>
    /\ UNCHANGED <<buffer, hera_loaded, prev>>
    /\ UNCHANGED console
    /\ R_PPStack' = <<"code_", "cursor_pos_">>

\* lines 235-246: the result is protected, the matches and the span are
\* decoded, three protections are released and the reply is returned
complete_invoke_return ==
    /\ pc = "invoke"
    /\ req.kind = "complete"
    /\ hera_loaded
    /\ \E r \in CompleteResults :
         LET matches      == json_from_character_vector(VECTOR_ELT(r, 0))
             cursor_start == INTEGER_ELT(VECTOR_ELT(r, 1), 0)
             cursor_end   == INTEGER_ELT(VECTOR_ELT(r, 1), 1)
             reply        == create_complete_reply(matches, cursor_start, cursor_end)
         IN  /\ result' = r
             /\ \E u \in UNPROTECT(PROTECT(R_PPStackTop, 1), 3) :
                  /\ R_PPStackTop' = u.top
                  /\ R_PPStack' = Popped(Pushed(R_PPStack, <<"result">>), 3, u)
                  /\ IF u.error
                     THEN /\ Throw("unprotect_error", "crashed")
                          /\ UNCHANGED sent
                     ELSE /\ Return(Append(sent, Reply(reply)))
                          /\ pc' = "idle"
                          /\ UNCHANGED signal
    /\ buffer' = NoBuffer
    /\ nwrites' = 0
    /\ nreads' = 0
    /\ UNCHANGED <<req, rid, entry_top, history, hera_loaded>>
    /\ last_write' = NoWrite
    /\ UNCHANGED <<sink, capture_stream>>
    /\ decodes' = Decode(Pushed(R_PPStack, <<"result">>), {"matches", "span"})

\* ------------------------------------------------- inspect_request_impl
\* lines 251-254: two arguments are protected and hera's inspect() is
\* called
inspect_request_impl ==
    /\ \E code \in Codes, cursor_pos \in CursorPositions :
         Dispatch([kind |-> "inspect", code |-> code, cursor_pos |-> cursor_pos])
    /\ R_PPStackTop' = PROTECT(R_PPStackTop, 2)
    /\ pc' = "invoke"
    /\ sent' = <<>>
    /\ history' = <<>>
    /\ UNCHANGED <<buffer, hera_loaded, prev>>
    /\ UNCHANGED console
    /\ R_PPStack' = <<"code_", "cursor_pos_">>

\* variant: the payload is parsed before the found flag is looked at
inspect_invoke_return_parses_first ==
    /\ pc = "invoke"
    /\ req.kind = "inspect"
    /\ hera_loaded
    /\ \E r \in InspectResults :
         LET top   == PROTECT(R_PPStackTop, 1)
             found == (LOGICAL_ELT(VECTOR_ELT(r, 0), 0) # FALSE_)
             data  == json_parse(STRING_ELT(VECTOR_ELT(r, 1), 0))
         IN  /\ result' = r
             /\ decodes' = Decode(Pushed(R_PPStack, <<"result">>), {"found", "payload"})
             /\ IF ~data.ok
                THEN /\ R_PPStackTop' = top
                     /\ R_PPStack' = Pushed(R_PPStack, <<"result">>)
                     /\ Throw("exception", "idle")
                     /\ UNCHANGED sent
                ELSE \E u \in UNPROTECT(top, 3) :
                       /\ R_PPStackTop' = u.top
                       /\ R_PPStack' = Popped(Pushed(R_PPStack, <<"result">>), 3, u)
                       /\ IF u.error
                          THEN /\ Throw("unprotect_error", "crashed")
                               /\ UNCHANGED sent
                          ELSE /\ Return(Append(sent, Reply(
                                     IF found
                                     THEN create_inspect_reply(TRUE, data.doc)
                                     ELSE create_inspect_reply(FALSE, {}))))
                               /\ pc' = "idle"
                               /\ UNCHANGED signal
    /\ buffer' = NoBuffer
    /\ nwrites' = 0
    /\ nreads' = 0
    /\ UNCHANGED <<req, rid, entry_top, history, hera_loaded>>
    /\ last_write' = NoWrite
    /\ UNCHANGED <<sink, capture_stream>>

\* lines 254-264: the result is protected; when found is false three
\* protections are released and the negative reply returned; otherwise the
\* payload is parsed (a parse failure throws out of the handler), three
\* protections are released and the positive reply returned
inspect_invoke_return ==
    /\ pc = "invoke"
    /\ req.kind = "inspect"
    /\ hera_loaded
    /\ \E r \in InspectResults :
         LET top   == PROTECT(R_PPStackTop, 1)
             found == (LOGICAL_ELT(VECTOR_ELT(r, 0), 0) # FALSE_)
             data  == json_parse(STRING_ELT(VECTOR_ELT(r, 1), 0))
         IN  /\ result' = r
             /\ decodes' = Decode(Pushed(R_PPStack, <<"result">>),
                                   {"found"} \cup (IF found THEN {"payload"} ELSE {}))
             /\ IF found /\ ~data.ok
                THEN /\ R_PPStackTop' = top
                     /\ R_PPStack' = Pushed(R_PPStack, <<"result">>)
                     /\ Throw("exception", "idle")
                     /\ UNCHANGED sent
                ELSE \E u \in UNPROTECT(top, 3) :
                       /\ R_PPStackTop' = u.top
                       /\ R_PPStack' = Popped(Pushed(R_PPStack, <<"result">>), 3, u)
                       /\ IF u.error
                          THEN /\ Throw("unprotect_error", "crashed")
                               /\ UNCHANGED sent
                          ELSE /\ Return(Append(sent, Reply(
                                     IF found
                                     THEN create_inspect_reply(TRUE, data.doc)
                                     ELSE create_inspect_reply(FALSE, {}))))
                               /\ pc' = "idle"
                               /\ UNCHANGED signal
    /\ buffer' = NoBuffer
    /\ nwrites' = 0
    /\ nreads' = 0
    /\ UNCHANGED <<req, rid, entry_top, history, hera_loaded>>
    /\ last_write' = NoWrite
    /\ UNCHANGED <<sink, capture_stream>>

\* ------------------------------------------------ shutdown_request_impl
\* line 268: the embedded runtime is torn down
shutdown_request_impl ==
    /\ pc = "idle"
    /\ pc' = "shutdown"
    /\ req' = [kind |-> "shutdown"]
    /\ result' = NoResult
    /\ sent' = <<>>
    /\ history' = <<>>
    /\ UNCHANGED <<rid, R_PPStackTop, entry_top, buffer, nwrites, nreads,
                   signal, hera_loaded, prev>>
    /\ UNCHANGED console
    /\ decodes' = {}
    /\ UNCHANGED R_PPStack

\* ------------------------------------------------------------------ Next
Next ==
    \/ configure_impl_eval
    \/ configure_impl_return
    \/ WriteConsoleEx
    \/ capture_begin
    \/ capture_WriteConsoleEx
    \/ capture_end
    \/ ReadConsole_request
    \/ ReadConsole_return
    \/ invoke_hera_fn_unavailable
    \/ execute_request_impl
    \/ execute_invoke_return
    \/ execute_error_branch
    \/ execute_result_branch
    \/ execute_finish
    \/ is_complete_request_impl
    \/ is_complete_parse_return
    \/ complete_request_impl
    \/ complete_invoke_return
    \/ inspect_request_impl
    \/ inspect_invoke_return
    \/ shutdown_request_impl

Spec == Init /\ [][Next]_vars

TypeOK ==
    /\ pc \in {"start", "configure_eval", "idle", "invoke", "input_wait", "parse", "capture_eval",
               "execute_error_test", "execute_result_test", "execute_finish",
               "shutdown", "crashed"}
    /\ rid \in 0 .. MaxRequests
    /\ R_PPStackTop \in Int
    /\ signal \in {"none", "exception", "unprotect_error", "R_error", "memory_fault"}
    /\ hera_loaded \in BOOLEAN
    /\ prev.replies \in 0 .. 2

\* ================================================================ claims
RequestKinds == {"execute", "is_complete", "complete", "inspect"}

\* the handler of the current request has returned to the protocol server
Returned == pc = "idle" /\ req.kind \in RequestKinds /\ signal = "none"

HasType(msgs, t) == \E i \in 1 .. Len(msgs) : msgs[i].type = t
IsOkReply(m)    == IsReply(m) /\ m.content.status = "ok"
IsErrorReply(m) == IsReply(m) /\ m.content.status = "error"

\* C1 (as claimed): every request gets exactly one terminal reply: no
\* request ever has two, and a request whose handler has returned has one.
C1_ExactlyOneReply ==
    /\ Len(Replies(sent)) <= 1
    /\ Returned => Len(Replies(sent)) = 1

\* C2: within one request no stream event, execution-error event or
\* execution-result event is emitted after a terminal reply of that
\* request: in the order of emission, whatever follows a reply is a reply.
C2_EventsBeforeReply ==
    \A i, j \in 1 .. Len(sent) :
        (i < j /\ IsReply(sent[i])) => IsReply(sent[j])

C2_Witness ==
    /\ Returned
    /\ req.kind = "execute"
    /\ Len(sent) >= 3
    /\ sent[1].type = "stream"
    /\ sent[2].type = "error"
    /\ IsReply(sent[3])

\* C3 (as claimed): a request releases as many protections as it acquired:
\* the protection stack is never below its depth on entry while the request
\* runs, and it is back at that depth when the request has left the bridge.
C3_ProtectionBalanced ==
    /\ R_PPStackTop >= entry_top
    /\ pc = "idle" => R_PPStackTop = entry_top

\* C4: an Execute request that returns without a fatal defect has a
\* protocol success reply as its last emitted message, also when hera
\* returned an error_reply and the error reply was already emitted.
C4_EndsWithSuccessReply ==
    (Returned /\ req.kind = "execute") =>
        /\ Len(sent) > 0
        /\ IsOkReply(sent[Len(sent)])

C4_Witness ==
    /\ Returned
    /\ req.kind = "execute"
    /\ Rf_inherits(result, "error_reply")
    /\ Len(sent) = 3
    /\ IsErrorReply(sent[2])
    /\ IsOkReply(sent[3])

\* C5 (as claimed): of two Execute requests issued back-to-back, the second
\* is in its native evaluation (or suspended in the input round-trip) only
\* after the first one's terminal reply was emitted.
C5_SecondAfterFirstReply ==
    (pc \in {"invoke", "input_wait"} /\ req.kind = "execute" /\ prev.kind = "execute")
        => prev.replies >= 1

\* C6: when hera returned an error_reply and Execute has passed its error
\* branch, exactly one execution-error event was published, the message
\* right after it is the protocol error reply, and both carry the native
\* message, kind and traceback lines (same length, same order; none when
\* the native list has no third element).
NativeTrace(r) == IF Len(r.elts) >= 3 THEN r.elts[3] ELSE <<>>

C6_ErrorRoundTrip ==
    (/\ req.kind = "execute"
     /\ pc \in {"execute_result_test", "execute_finish", "idle"}
     /\ Rf_inherits(result, "error_reply"))
    => /\ Len(SelectSeq(sent, LAMBDA m : m.type = "error")) = 1
       /\ \E i \in 1 .. Len(sent) - 1 :
            /\ sent[i].type = "error"
            /\ IsErrorReply(sent[i + 1])
            /\ sent[i].evalue = result.elts[1][1]
            /\ sent[i].ename = result.elts[2][1]
            /\ sent[i].traceback = NativeTrace(result)
            /\ sent[i + 1].content.evalue = result.elts[1][1]
            /\ sent[i + 1].content.ename = result.elts[2][1]
            /\ sent[i + 1].content.traceback = NativeTrace(result)

C6_Witness ==
    /\ req.kind = "execute"
    /\ pc = "execute_result_test"
    /\ Rf_inherits(result, "error_reply")
    /\ Len(result.elts) = 3
    /\ Len(result.elts[3]) = MaxTrace
    /\ Len(sent) >= 2
    /\ IsErrorReply(sent[Len(sent)])
    /\ sent[Len(sent)].content.traceback = SubSeq(TraceLines, 1, MaxTrace)

\* C7 (as claimed): when hera's execute returns a value that is neither an
\* error_reply nor an execution_result, the request ends with an
\* internal-error signal and no protocol success reply is emitted for it.
C7_UnknownTagIsFatal ==
    (/\ pc = "idle"
     /\ req.kind = "execute"
     /\ result # NoResult
     /\ ~Rf_inherits(result, "error_reply")
     /\ ~Rf_inherits(result, "execution_result"))
    => /\ signal # "none"
       /\ \A i \in 1 .. Len(sent) : ~IsOkReply(sent[i])

\* C8 (as claimed): for an Execute request with silent = true no
\* execution-result event is published, whatever hera returns.
C8_SilentPublishesNoResult ==
    (req.kind = "execute" /\ req.silent) => ~HasType(sent, "execute_result")

\* C9 (as claimed): when require("hera") reported failure, Configure does
\* not return normally: the session is stopped with a fatal signal and
\* serves no request.
ConfigureLeft == pc \notin {"start", "configure_eval"}

C9_FailedLoadIsFatal ==
    (ConfigureLeft /\ ~hera_loaded) => (signal # "none" /\ pc = "crashed")

\* C10: the reply of IsComplete carries "incomplete" when the parser
\* returned PARSE_INCOMPLETE, "invalid" when it returned PARSE_ERROR and
\* "complete" for every other returned status; it always carries one of the
\* three tags and an empty indent.
C10_IsCompleteMapping ==
    (Returned /\ req.kind = "is_complete") =>
        /\ Len(sent) = 1
        /\ IsReply(sent[1])
        /\ sent[1].content.indent = ""
        /\ sent[1].content.status \in {"complete", "incomplete", "invalid"}
        /\ result.status = "PARSE_INCOMPLETE" => sent[1].content.status = "incomplete"
        /\ result.status = "PARSE_ERROR" => sent[1].content.status = "invalid"
        /\ result.status \in ParseStatuses \ {"PARSE_INCOMPLETE", "PARSE_ERROR"}
              => sent[1].content.status = "complete"

C10_Witness ==
    /\ Returned
    /\ req.kind = "is_complete"
    /\ result.status = "PARSE_INCOMPLETE"
    /\ sent = <<Reply(create_is_complete_reply("incomplete", ""))>>

\* C11: when the parser raised an R error instead of returning a status,
\* the error is caught inside IsComplete: the handler has returned, nothing
\* escaped it, its one reply is classified "invalid", and the interpreter
\* is idle again, ready for the next request.
ParserRaised ==
    /\ req.kind = "is_complete"
    /\ result # NoResult
    /\ result.status = "R_error"

C11_ParserErrorIsInvalid ==
    ParserRaised =>
        /\ pc = "idle"
        /\ signal = "none"
        /\ Len(sent) = 1
        /\ IsReply(sent[1])
        /\ sent[1].content.status = "invalid"

C11_Witness ==
    /\ ParserRaised
    /\ pc = "idle"
    /\ rid < MaxRequests
    /\ sent = <<Reply(create_is_complete_reply("invalid", ""))>>

\* C12: when hera returned an execution_result whose two payload strings
\* are JSON and Execute has passed its result branch, exactly one
\* execution-result event was published; it carries the execution_count of
\* this request and the documents the two strings denote, data first; and
\* no execution-error event was published for the request.
Document(text) ==
    IF text = "{}" THEN {} ELSE {<<"text/plain", "2">>}

ResultPublished ==
    /\ req.kind = "execute"
    /\ pc \in {"execute_finish", "idle"}
    /\ signal = "none"
    /\ Rf_inherits(result, "execution_result")

C12_ResultEvent ==
    ResultPublished =>
        /\ Len(SelectSeq(sent, LAMBDA m : m.type = "execute_result")) = 1
        /\ ~HasType(sent, "error")
        /\ \A i \in 1 .. Len(sent) :
             sent[i].type = "execute_result" =>
                /\ sent[i].execution_count = req.execution_count
                /\ sent[i].data = Document(result.elts[1][1])
                /\ sent[i].metadata = Document(result.elts[2][1])

C12_Witness ==
    /\ ResultPublished
    /\ pc = "idle"
    /\ rid = 2
    /\ result.elts = <<<<"{\"text/plain\":\"2\"}">>, <<"{}">>>>
    /\ \E i \in 1 .. Len(sent) :
         sent[i] = publish_execution_result(2, {<<"text/plain", "2">>}, {})

\* C13: during an Execute request the history collaborator has been called
\* exactly once, with revision 0 and the request's execution_count and
\* code, when store_history is set, and not at all when it is not; the call
\* is already made when the native execute call is in progress.
C13_HistoryIffStoreHistory ==
    req.kind = "execute" =>
        history = IF req.store_history
                  THEN <<<<0, req.execution_count, req.code>>>>
                  ELSE <<>>

C13_Witness ==
    /\ req.kind = "execute"
    /\ pc = "invoke"
    /\ nwrites = 0
    /\ req.store_history
    /\ history = <<<<0, 2, "1 + ">>>>

\* C14: Inspect answers a result whose found flag is false with the negative
\* reply and does not decode its payload (a payload that is not JSON does
\* no harm); it answers a result whose flag is true and whose payload is
\* JSON with the positive reply that carries the document the payload
\* denotes.
InspectDone ==
    /\ req.kind = "inspect"
    /\ result # NoResult
    /\ pc = "idle"

WellFormed(text) == text \in {"{}", "{\"text/plain\":\"2\"}"}

C14_InspectReply ==
    InspectDone =>
        /\ result.elts[1][1] = FALSE_ =>
              /\ signal = "none"
              /\ Replies(sent) = <<Reply([status |-> "ok", found |-> FALSE, data |-> {}])>>
        /\ (result.elts[1][1] = TRUE_ /\ WellFormed(result.elts[2][1])) =>
              /\ signal = "none"
              /\ Replies(sent) = <<Reply([status |-> "ok", found |-> TRUE,
                                          data |-> Document(result.elts[2][1])])>>

C14_Witness ==
    /\ InspectDone
    /\ result.elts = <<<<FALSE_>>, <<"{bad">>>>
    /\ signal = "none"
    /\ sent = <<Reply(create_inspect_reply(FALSE, {}))>>

\* C15: the reply of Complete carries the strings of the native match
\* vector, as many and in the same order (for vectors of length 0, 1 and
\* more), its cursor_start is element 0 of the native span and its
\* cursor_end is element 1.
CompleteDone == Returned /\ req.kind = "complete"

C15_CompleteRoundTrip ==
    CompleteDone =>
        /\ Len(Replies(sent)) = 1
        /\ LET reply == Replies(sent)[1].content
           IN  /\ Len(reply.matches) = Len(result.elts[1])
               /\ \A i \in 1 .. Len(result.elts[1]) :
                    reply.matches[i] = result.elts[1][i]
               /\ reply.cursor_start = result.elts[2][1]
               /\ reply.cursor_end = result.elts[2][2]

C15_Witness ==
    /\ CompleteDone
    /\ result.elts = <<<<"paste", "print">>, <<0, 3>>>>
    /\ Replies(sent) = <<Reply(create_complete_reply(<<"paste", "print">>, 0, 3))>>

\* C16: in publish mode every console write of an evaluation has produced
\* exactly one stream event, and the event of the write made last has the
\* first buflen bytes of the buffer as its text and is tagged "stderr" when
\* otype is 1 and "stdout" for any other otype.
InEvaluation == pc \in {"configure_eval", "invoke", "input_wait"}

C16_PublishModeWrite ==
    /\ (InEvaluation /\ sink = "publish") => Len(sent) = nwrites
    /\ (InEvaluation /\ sink = "publish" /\ last_write # NoWrite) =>
          LET event == sent[Len(sent)]
          IN  /\ event.type = "stream"
              /\ event.name = IF last_write.otype = 1 THEN "stderr" ELSE "stdout"
              /\ Len(event.text) = last_write.buflen
              /\ \A i \in 1 .. last_write.buflen : event.text[i] = last_write.buf[i]

C16_Witness ==
    /\ pc = "invoke"
    /\ sink = "publish"
    /\ last_write = [buf |-> <<"h", "i">>, buflen |-> 1, otype |-> 2]
    /\ sent = <<publish_stream("stdout", <<"h">>)>>

\* C17: an IsComplete request leaves nothing behind but its reply.  While
\* it is handled no evaluation is entered (the thread is in the parser or
\* back at idle), no stream event is published and the history is not
\* written; its steps leave the console buffer, the console sink, the
\* capture stream and the loaded library as they were, and when it has
\* returned the protection stack is at its depth on entry.
C17_IsCompleteFrame ==
    /\ [](req.kind = "is_complete" =>
            /\ pc \in {"parse", "idle"}
            /\ ~HasType(sent, "stream")
            /\ ~HasType(sent, "error")
            /\ ~HasType(sent, "execute_result")
            /\ history = <<>>)
    /\ [][req'.kind = "is_complete" =>
            /\ UNCHANGED <<buffer, sink, capture_stream, hera_loaded>>
            /\ pc' = "idle" => R_PPStackTop' = entry_top']_vars

C17_Witness ==
    /\ req.kind = "is_complete"
    /\ pc = "idle"
    /\ rid = 2
    /\ entry_top = 3
    /\ R_PPStackTop = 3
    /\ Len(sent) = 1

\* C18: every read of a field of the value hera returned (tag test,
\* message, kind, trace, data, metadata, matches, span, found flag, payload)
\* happens while that value is on the protection stack and before the
\* request's protections have been released.
C18_DecodeWhileProtected ==
    \A d \in decodes : d.protected /\ ~d.released

\* C19: whatever line the client returns and whatever length the caller
\* gives, ReadConsole writes only to positions 0 .. length-1 of the buffer:
\* the bytes copied and the line break after them are inside the bound.
C19_ReadConsoleInsideBuffer ==
    /\ buffer.stores \subseteq 0 .. buffer.length - 1
    /\ ~buffer.past
    /\ signal # "memory_fault"

\* C20: in capture mode no console write reaches the client: no step taken
\* in capture mode adds to the messages sent.  A console write made while capture_WriteConsoleEx is installed publishes nothing
\* and changes nothing of the interpreter but the capture stream: on
\* channel 1 the stream stays as it is, on any other channel the stream is
\* its earlier content followed by exactly the first buflen bytes of buf.
\* (nwrites and last_write only record that the write was made.)
C20_CaptureModeWrite ==
    /\ [][sink = "capture" => sent' = sent]_vars
    /\ [][(sink = "capture" /\ nwrites' = nwrites + 1) =>
            /\ UNCHANGED <<pc, req, rid, R_PPStackTop, entry_top, result, sent,
                           history, buffer, nreads, signal, hera_loaded, prev,
                           sink, R_PPStack, decodes>>
            /\ IF last_write'.otype = 1
               THEN capture_stream' = capture_stream
               ELSE /\ Len(capture_stream') = Len(capture_stream) + last_write'.buflen
                    /\ SubSeq(capture_stream', 1, Len(capture_stream)) = capture_stream
                    /\ \A i \in 1 .. last_write'.buflen :
                         capture_stream'[Len(capture_stream) + i] = last_write'.buf[i]]_vars

C20_Witness ==
    /\ sink = "capture"
    /\ nwrites = 3
    /\ capture_stream = <<"h", "h", "i">>
    /\ last_write.otype = 1
    /\ last_write.buflen = 2

====
